---- MODULE Spec2Model ----
(***************************************************************************)
(* Model of the byte-range handler of cassiopeia                           *)
(* (httpserver/rangehandler/rangehandler.go): rangeHandler.handler, the    *)
(* producer goroutine it starts, the io.Pipe between them and the          *)
(* verifying traversal that reads the pipe and writes to the client.       *)
(*                                                                         *)
(* The logical object is a file of NumLeaves chunks of ChunkSize bytes     *)
(* under one root block.  The block stream (CARv1) is a sequence of        *)
(* tokens: a header token, then per block a frame token <<"C", cid, len>>  *)
(* followed by len byte tokens <<"B", byte, 0>>.                           *)
(***************************************************************************)
EXTENDS Integers, Sequences, FiniteSets, TLC

\* ------------------------------------------------------------------ bounds
NumLeaves == 2
ChunkSize == 2
MaxWrite == 2
MaxRead == 2
NumReqs == 2
MsgLen == 2

\* ------------------------------------------------------- program constants
StatusBadRequest == 400
StatusNotFound == 404
StatusInternalServerError == 500

\* ---------------------------------------------------------------- helpers
Size == NumLeaves * ChunkSize
Nil == <<>>
Absent == "absent"
Malformed == "malformed"
NoBlock == 0 - 1
RootId == 0
BlockIds == 0 .. NumLeaves
Min(a, b) == IF a < b THEN a ELSE b
IsPrefix(s, t) == Len(s) <= Len(t) /\ SubSeq(t, 1, Len(s)) = s

\* Bytes of the logical object: the byte at offset k (0-based) is k + 1.
ObjByte(k) == k + 1
HashBase == Size + 2

\* Payload of leaf i (1-based): the object's bytes [(i-1)*ChunkSize, i*ChunkSize).
LeafData(i) == [j \in 1 .. ChunkSize |-> ObjByte((i - 1) * ChunkSize + j - 1)]
\* Payload of the root block: one byte standing for the encoded link table.
RootData == << Size + 1 >>
BlockData(id) == IF id = RootId THEN RootData ELSE LeafData(id)
\* A tampered payload: same length, first byte overwritten.
Tamper(data) == [data EXCEPT ![1] = 0]

\* The content hash of a payload (length-aware polynomial over the bytes);
\* a block's content identifier is the hash of its valid payload.
RECURSIVE Hash(_)
Hash(p) == IF p = <<>> THEN 1 ELSE Hash(SubSeq(p, 1, Len(p) - 1)) * HashBase + p[Len(p)]
Cid(id) == Hash(BlockData(id))

HeaderTok == <<"H", Cid(RootId), 0>>
Frame(cid, data) == << <<"C", cid, Len(data)>> >> \o [j \in 1 .. Len(data) |-> <<"B", data[j], 0>>]
ErrTok(code) == <<"E", code, 0>>

\* The frames of blocks from..NumLeaves, block `bad` (if any) tampered.
RECURSIVE FramesFrom(_, _)
FramesFrom(id, bad) ==
  IF id > NumLeaves THEN <<>>
  ELSE Frame(Cid(id), IF id = bad THEN Tamper(BlockData(id)) ELSE BlockData(id)) \o FramesFrom(id + 1, bad)
\* The complete block stream the underlying retrieval writes for the object.
Stream(bad) == <<HeaderTok>> \o FramesFrom(RootId, bad)
ValidStream == Stream(NoBlock)

\* The blocks the range selector visits, in stream order, for the inclusive
\* byte range <<from, to>>: the root, then every leaf whose span meets it.
Overlaps_ToExclusive(i, br) == br[1] <= i * ChunkSize - 1 /\ br[2] > (i - 1) * ChunkSize
Overlaps(i, br) == br[1] <= i * ChunkSize - 1 /\ br[2] >= (i - 1) * ChunkSize
RECURSIVE SelectedFrom(_, _)
SelectedFrom(i, br) ==
  IF i > NumLeaves THEN <<>>
  ELSE (IF Overlaps(i, br) THEN <<Cid(i)>> ELSE <<>>) \o SelectedFrom(i + 1, br)
Selector(br) == <<Cid(RootId)>> \o SelectedFrom(1, br)

\* trustlesshttp.ParseByteRange on the entity-bytes query parameter: no
\* parameter gives (nil, nil), an unparsable one (nil, err), "from:to" the range.
ParseRange(param) ==
  IF param = Absent THEN [br |-> Nil, err |-> FALSE]
  ELSE IF param = Malformed THEN [br |-> Nil, err |-> TRUE]
  ELSE [br |-> param, err |-> FALSE]

\* url.Values.Encode writes the parameters sorted by key.
KeyRank(k) == IF k = "dag-scope" THEN 1 ELSE 2
RECURSIVE Encode(_)
Encode(q) ==
  IF q = <<>> THEN <<>>
  ELSE LET i == CHOOSE i \in 1 .. Len(q) : \A j \in 1 .. Len(q) : KeyRank(q[i][1]) <= KeyRank(q[j][1])
       IN <<q[i]>> \o Encode(SubSeq(q, 1, i - 1) \o SubSeq(q, i + 1, Len(q)))

\* req.Clone + q.Del("entity-bytes") + q.Encode(): the request the producer
\* hands to next.  Path and headers are copied, the query is rebuilt from
\* the remaining parameters.
StripRange_DropQuery(r) == [r EXCEPT !.entityBytes = Absent, !.query = <<>>]
StripRange(r) == [r EXCEPT !.entityBytes = Absent, !.query = Encode(r.query)]

\* The other query parameters of a request, in the order the client sent them.
Queries == { <<>>, << <<"format", "car">>, <<"dag-scope", "entity">> >> }

\* The first status written wins (net/http ignores later WriteHeader calls).
StatusAfter(s, code) == IF s = 0 THEN code ELSE s

ValidRanges == {<<f, t>> \in (0 .. Size - 1) \X (0 .. Size - 1) : f <= t}
Requests ==
  [entityBytes : {Absent, Malformed} \cup ValidRanges, query : Queries,
   path : {"/ipfs/root"}, header : {"Accept: application/vnd.ipld.car"}]

VARIABLES
  req,          \* the inbound request
  hpc,          \* position of rangeHandler.handler
  byteRange,    \* local byteRange (Nil or <<from, to>>)
  rangeErr,     \* ParseByteRange returned an error
  failure,      \* which descriptor step failed ("none" if none)
  status,       \* status line sent to the client (0: none yet)
  body,         \* tokens sent to the client
  errCalls,     \* codes the handler passed to http.Error, in order
  nextCalls,    \* invocations of rh.next, in order
  pipeCreated,  \* io.Pipe() has been called
  pipeBuf,      \* unread rest of the producer's write in flight
  rdClosed,     \* read end closed
  wrClosed,     \* write end closed
  written,      \* every token handed to wr.Write so far
  readLog,      \* every token returned by r.Read so far
  ppc,          \* position of the producer goroutine
  stream,       \* what next will write through the wrapped writer
  ppos,         \* number of stream tokens handed to wr.Write
  cpc,          \* position of the block reader inside VerifyCar
  rbuf,         \* tokens read from the pipe and not yet decoded
  expected,     \* identifiers the traversal still has to load
  framesIn,     \* units (header, blocks) decoded so far
  cres,         \* result of VerifyCar ("none", "ok", "err")
  reqDone,      \* req.Context() is done
  ctxCancelled, \* cancel() of the derived context has run
  pHdr,         \* next has set its headers and status on the wrapped writer
  resUsers,     \* tasks that called a method of res since the goroutine started
  spc,          \* server: position of each concurrent handler invocation
  heap,         \* server: the pipes allocated by io.Pipe(), in order
  sr,           \* server: each invocation's local r (index in heap, 0: none)
  sw,           \* server: each invocation's local wr
  prods,        \* server: the producer goroutines started, in order
  got           \* server: what each invocation's consumer has read

hvars == <<req, hpc, byteRange, rangeErr, failure>>
resvars == <<status, body, errCalls, nextCalls>>
pipevars == <<pipeCreated, pipeBuf, rdClosed, wrClosed, written, readLog>>
pvars == <<ppc, stream, ppos>>
cvars == <<cpc, rbuf, expected, framesIn, cres>>
ctxvars == <<reqDone, ctxCancelled>>
sharevars == <<pHdr, resUsers>>
reqvars == <<hvars, resvars, pipevars, pvars, cvars, ctxvars, sharevars>>
svars == <<spc, heap, sr, sw, prods, got>>
vars == <<reqvars, svars>>

\* The invocations of the one handler value that NewHttpServer installs;
\* net/http runs each of them on its own goroutine.
Reqs == 1 .. NumReqs

Init ==
  /\ req \in Requests
  /\ hpc = "start"
  /\ byteRange = Nil
  /\ rangeErr = FALSE
  /\ failure = "none"
  /\ status = 0
  /\ body = <<>>
  /\ errCalls = <<>>
  /\ nextCalls = <<>>
  /\ pipeCreated = FALSE
  /\ pipeBuf = <<>>
  /\ rdClosed = FALSE
  /\ wrClosed = FALSE
  /\ written = <<>>
  /\ readLog = <<>>
  /\ ppc = "none"
  /\ stream = <<>>
  /\ ppos = 0
  /\ cpc = "none"
  /\ rbuf = <<>>
  /\ expected = <<>>
  /\ framesIn = 0
  /\ cres = "none"
  /\ reqDone = FALSE
  /\ ctxCancelled = FALSE
  /\ pHdr = FALSE
  /\ resUsers = {}
  /\ spc = [i \in Reqs |-> "idle"]
  /\ heap = <<>>
  /\ sr = [i \in Reqs |-> 0]
  /\ sw = [i \in Reqs |-> 0]
  /\ prods = <<>>
  /\ got = [i \in Reqs |-> <<>>]

\* http.Error(res, msg, code) followed by the handler's return.
FailWith(kind, code) ==
  /\ failure' = kind
  /\ status' = StatusAfter(status, code)
  /\ body' = Append(body, ErrTok(code))
  /\ errCalls' = Append(errCalls, code)
  /\ hpc' = "returned"

\* Lines 26-29: parse the byte range; on error write a 400 (and carry on).
ParseByteRange ==
  /\ hpc = "start"
  /\ LET parsed == ParseRange(req.entityBytes) IN
       /\ byteRange' = parsed.br
       /\ rangeErr' = parsed.err
       /\ IF parsed.err
            THEN /\ status' = StatusAfter(status, StatusBadRequest)
                 /\ body' = Append(body, ErrTok(StatusBadRequest))
                 /\ errCalls' = Append(errCalls, StatusBadRequest)
            ELSE UNCHANGED <<status, body, errCalls>>
  /\ hpc' = "checkNil"
  /\ UNCHANGED <<req, failure, nextCalls, pipevars, pvars, cvars, ctxvars, sharevars, svars>>

PassThrough_Wrapped ==
  /\ hpc = "checkNil"
  /\ byteRange = Nil
  /\ nextCalls' = Append(nextCalls, [w |-> "wrapped", req |-> req, sync |-> TRUE])
  /\ status' = StatusAfter(status, 200)
  /\ body' = body \o ValidStream
  /\ hpc' = "returned"
  /\ UNCHANGED <<req, byteRange, rangeErr, failure, errCalls, pipevars, pvars, cvars, ctxvars, sharevars, svars>>

\* Lines 30-34: byteRange == nil: rh.next(res, req), then return.  next runs
\* to completion on the real writer and sends its full block stream.
PassThrough ==
  /\ hpc = "checkNil"
  /\ byteRange = Nil
  /\ nextCalls' = Append(nextCalls, [w |-> "res", req |-> req, sync |-> TRUE])
  /\ status' = StatusAfter(status, 200)
  /\ body' = body \o ValidStream
  /\ hpc' = "returned"
  /\ UNCHANGED <<req, byteRange, rangeErr, failure, errCalls, pipevars, pvars, cvars, ctxvars, sharevars, svars>>

ParseUrlPath_BadCidNotFound ==
  /\ hpc = "checkNil"
  /\ byteRange # Nil
  /\ \E r \in {"ok", "ErrPathNotFound", "ErrBadCid", "ErrOther"} :
       IF r = "ok"
         THEN /\ hpc' = "checkFormat"
              /\ UNCHANGED <<failure, status, body, errCalls>>
         ELSE FailWith(r, IF r \in {"ErrPathNotFound", "ErrBadCid"} THEN StatusNotFound
                          ELSE StatusInternalServerError)
  /\ UNCHANGED <<req, byteRange, rangeErr, nextCalls, pipevars, pvars, cvars, ctxvars, sharevars, svars>>

\* Lines 39-49: ParseUrlPath and its error mapping.
ParseUrlPath ==
  /\ hpc = "checkNil"
  /\ byteRange # Nil
  /\ \E r \in {"ok", "ErrPathNotFound", "ErrBadCid", "ErrOther"} :
       IF r = "ok"
         THEN /\ hpc' = "checkFormat"
              /\ UNCHANGED <<failure, status, body, errCalls>>
         ELSE FailWith(r, IF r = "ErrPathNotFound" THEN StatusNotFound
                          ELSE IF r = "ErrBadCid" THEN StatusBadRequest
                          ELSE StatusInternalServerError)
  /\ UNCHANGED <<req, byteRange, rangeErr, nextCalls, pipevars, pvars, cvars, ctxvars, sharevars, svars>>

\* Lines 52-56: CheckFormat.
CheckFormat ==
  /\ hpc = "checkFormat"
  /\ \E ok \in BOOLEAN :
       IF ok
         THEN /\ hpc' = "parseScope"
              /\ UNCHANGED <<failure, status, body, errCalls>>
         ELSE FailWith("format", StatusBadRequest)
  /\ UNCHANGED <<req, byteRange, rangeErr, nextCalls, pipevars, pvars, cvars, ctxvars, sharevars, svars>>

ParseScope_FallThrough ==
  /\ hpc = "parseScope"
  /\ \E ok \in BOOLEAN :
       IF ok
         THEN UNCHANGED <<failure, status, body, errCalls>>
         ELSE /\ failure' = "scope"
              /\ status' = StatusAfter(status, StatusBadRequest)
              /\ body' = Append(body, ErrTok(StatusBadRequest))
              /\ errCalls' = Append(errCalls, StatusBadRequest)
  /\ hpc' = "newWritable"
  /\ UNCHANGED <<req, byteRange, rangeErr, nextCalls, pipevars, pvars, cvars, ctxvars, sharevars, svars>>

\* Lines 59-63: ParseScope.
ParseScope ==
  /\ hpc = "parseScope"
  /\ \E ok \in BOOLEAN :
       IF ok
         THEN /\ hpc' = "newWritable"
              /\ UNCHANGED <<failure, status, body, errCalls>>
         ELSE FailWith("scope", StatusBadRequest)
  /\ UNCHANGED <<req, byteRange, rangeErr, nextCalls, pipevars, pvars, cvars, ctxvars, sharevars, svars>>

\* Lines 67-71: storage.NewWritable(res, roots, CARv1): on success the CARv1
\* header has been written to res (the first write sends status 200); a
\* failure is taken to happen before any byte has reached res.
NewWritable ==
  /\ hpc = "newWritable"
  /\ \E ok \in BOOLEAN :
       IF ok
         THEN /\ hpc' = "pipe"
              /\ status' = StatusAfter(status, 200)
              /\ body' = Append(body, HeaderTok)
              /\ UNCHANGED <<failure, errCalls>>
         ELSE FailWith("writable", StatusInternalServerError)
  /\ UNCHANGED <<req, byteRange, rangeErr, nextCalls, pipevars, pvars, cvars, ctxvars, sharevars, svars>>

\* Lines 77-96: io.Pipe(), context.WithCancel(req.Context()), go func, defer
\* cancel(); the handler goes on to VerifyCar with the traversal plan.
StartProducer ==
  /\ hpc = "pipe"
  /\ pipeCreated' = TRUE
  /\ ppc' = "spawned"
  /\ expected' = Selector(byteRange)
  /\ cpc' = "need"
  /\ hpc' = "verify"
  /\ UNCHANGED <<req, byteRange, rangeErr, failure, resvars, pipeBuf, rdClosed, wrClosed,
                 written, readLog, stream, ppos, rbuf, framesIn, cres, ctxvars, sharevars, svars>>

\* Lines 84-93, in the goroutine: wrap res so that Write goes to wr, clone
\* the request without entity-bytes, call rh.next.  What next is going to
\* write is the object's block stream, possibly with one corrupted block.
ProducerCallNext ==
  /\ ppc = "spawned"
  /\ nextCalls' = Append(nextCalls, [w |-> "wrapped", req |-> StripRange(req), sync |-> FALSE])
  /\ \E bad \in BlockIds \cup {NoBlock} : stream' = Stream(bad)
  /\ ppc' = "running"
  /\ UNCHANGED <<hvars, status, body, errCalls, pipevars, ppos, cvars, ctxvars, sharevars, svars>>

\* Lines 84-88: httpsnoop.Wrap replaces Write only; Header() and WriteHeader
\* of the wrapped writer are those of res.  next sets its response headers
\* and status before its first write; res has already sent its status.
ProducerWriteHeader ==
  /\ ppc = "running"
  /\ ~pHdr
  /\ pHdr' = TRUE
  /\ resUsers' = resUsers \cup {"producer"}
  /\ status' = StatusAfter(status, 200)
  /\ UNCHANGED <<hvars, body, errCalls, nextCalls, pipevars, pvars, cvars, ctxvars, svars>>

ProducerWrite_Direct ==
  /\ ppc = "running"
  /\ pHdr
  /\ ppos < Len(stream)
  /\ \E n \in 1 .. Min(MaxWrite, Len(stream) - ppos) :
       /\ body' = body \o SubSeq(stream, ppos + 1, ppos + n)
       /\ ppos' = ppos + n
  /\ UNCHANGED <<hvars, status, errCalls, nextCalls, pipevars, ppc, stream, cvars, ctxvars, sharevars, svars>>

\* next calls Write on the wrapped writer, i.e. wr.Write(b): the bytes are
\* offered to the reader and the call blocks until all of them are taken.
ProducerWrite ==
  /\ ppc = "running"
  /\ pHdr
  /\ ppos < Len(stream)
  /\ \E n \in 1 .. Min(MaxWrite, Len(stream) - ppos) :
       LET b == SubSeq(stream, ppos + 1, ppos + n) IN
         IF rdClosed \/ wrClosed
           THEN UNCHANGED <<pipeBuf, written, ppos, ppc>>
           ELSE /\ pipeBuf' = b
                /\ written' = written \o b
                /\ ppos' = ppos + n
                /\ ppc' = "writing"
  /\ UNCHANGED <<hvars, resvars, pipeCreated, rdClosed, wrClosed, readLog, stream, cvars, ctxvars, sharevars, svars>>

ProducerWriteReturn_Buffered ==
  /\ ppc = "writing"
  /\ ppc' = "running"
  /\ UNCHANGED <<hvars, resvars, pipevars, stream, ppos, cvars, ctxvars, sharevars, svars>>

\* wr.Write returns once the reader has taken every byte of it (or the read
\* end is closed).
ProducerWriteReturn ==
  /\ ppc = "writing"
  /\ pipeBuf = <<>> \/ rdClosed
  /\ ppc' = "running"
  /\ UNCHANGED <<hvars, resvars, pipevars, stream, ppos, cvars, ctxvars, sharevars, svars>>

\* Line 93-94: rh.next returns (after the whole stream, or early when the
\* retrieval fails or sees its context cancelled) and the goroutine ends.
ProducerReturn ==
  /\ ppc = "running"
  /\ ppc' = "done"
  /\ UNCHANGED <<hvars, resvars, pipevars, stream, ppos, cvars, ctxvars, sharevars, svars>>

\* The client goes away or an upstream timeout fires: req.Context() is done.
ClientCancel ==
  /\ hpc = "verify"
  /\ ~reqDone
  /\ reqDone' = TRUE
  /\ UNCHANGED <<hvars, resvars, pipevars, pvars, cvars, ctxCancelled, sharevars, svars>>

\* r.Read hands out the oldest n bytes of the write in flight.
PipeTake_Tail(buf, n) == SubSeq(buf, Len(buf) - n + 1, Len(buf))
PipeTake(buf, n) == SubSeq(buf, 1, n)
PipeRest(buf, n) == SubSeq(buf, n + 1, Len(buf))

\* The block reader is opened on an untrusted stream: every block it
\* returns has been hashed and compared with its identifier.
Verified_Trusted(cid, data) == TRUE
Verified(cid, data) == Hash(data) = cid

\* A decodable unit is at the head of buf: the header token, or a frame
\* token with all the payload bytes it announces.
UnitComplete(buf) == buf # <<>> /\ (buf[1][1] # "C" \/ Len(buf) >= 1 + buf[1][3])
UnitLen(buf) == IF buf[1][1] = "C" THEN 1 + buf[1][3] ELSE 1
Payload(buf) == [j \in 1 .. buf[1][3] |-> buf[j + 1][2]]

\* Line 108-114, VerifyCar: the block reader needs more bytes and calls
\* r.Read, which blocks until the writer offers some.
ConsumerBeginRead ==
  /\ hpc = "verify" /\ cres = "none"
  /\ cpc = "need"
  /\ ~UnitComplete(rbuf)
  /\ cpc' = "reading"
  /\ UNCHANGED <<hvars, resvars, pipevars, pvars, rbuf, expected, framesIn, cres, ctxvars, sharevars, svars>>

\* r.Read returns up to MaxRead of the bytes of the write in flight.
ConsumerRead ==
  /\ hpc = "verify" /\ cres = "none"
  /\ cpc = "reading"
  /\ pipeBuf # <<>>
  /\ \E n \in 1 .. Min(MaxRead, Len(pipeBuf)) :
       /\ rbuf' = rbuf \o PipeTake(pipeBuf, n)
       /\ readLog' = readLog \o PipeTake(pipeBuf, n)
       /\ pipeBuf' = PipeRest(pipeBuf, n)
  /\ cpc' = "need"
  /\ UNCHANGED <<hvars, resvars, pipeCreated, rdClosed, wrClosed, written, pvars,
                 expected, framesIn, cres, ctxvars, sharevars, svars>>

\* VerifyCar decodes the unit at the head of what it has read: the CAR
\* header first, then blocks.  A block whose bytes do not hash to its
\* identifier ends the traversal with an error; the block the traversal is
\* waiting for is stored through the link system, i.e. framed onto res; any
\* other block is skipped (UnsafeSkipUnexpected).
ConsumerDecode ==
  /\ hpc = "verify" /\ cres = "none"
  /\ cpc = "need"
  /\ UnitComplete(rbuf)
  /\ LET tok == rbuf[1]
         rest == SubSeq(rbuf, UnitLen(rbuf) + 1, Len(rbuf))
     IN
       IF (framesIn = 0) # (tok[1] = "H") \/ tok[1] \notin {"H", "C"}
         THEN /\ cres' = "err"
              /\ UNCHANGED <<rbuf, expected, framesIn, body>>
       ELSE IF tok[1] = "H"
         THEN /\ rbuf' = rest
              /\ framesIn' = framesIn + 1
              /\ UNCHANGED <<cres, expected, body>>
       ELSE IF ~Verified(tok[2], Payload(rbuf))
         THEN /\ cres' = "err"
              /\ UNCHANGED <<rbuf, expected, framesIn, body>>
       ELSE /\ rbuf' = rest
            /\ framesIn' = framesIn + 1
            /\ cres' = cres
            /\ IF expected # <<>> /\ Head(expected) = tok[2]
                 THEN /\ body' = body \o Frame(tok[2], Payload(rbuf))
                      /\ expected' = Tail(expected)
                 ELSE UNCHANGED <<body, expected>>
  /\ resUsers' = IF body' # body THEN resUsers \cup {"consumer"} ELSE resUsers
  /\ UNCHANGED <<hvars, status, errCalls, nextCalls, pipevars, pvars, cpc, ctxvars, pHdr, svars>>

\* The traversal has loaded every block of its plan: VerifyCar returns nil.
\* (VerifyCar may instead look at what follows in the stream: the read and
\* decode steps stay enabled once the plan is empty.)
TraversalDone ==
  /\ hpc = "verify" /\ cres = "none"
  /\ cpc = "need"
  /\ framesIn > 0
  /\ expected = <<>>
  /\ cres' = "ok"
  /\ UNCHANGED <<hvars, resvars, pipevars, pvars, cpc, rbuf, expected, framesIn, ctxvars, sharevars, svars>>

\* VerifyCar was given req.Context(): between two blocks it may notice that
\* the context is done and return its error.
ConsumerCtxAbort ==
  /\ hpc = "verify" /\ cres = "none"
  /\ cpc = "need"
  /\ reqDone
  /\ cres' = "err"
  /\ UNCHANGED <<hvars, resvars, pipevars, pvars, cpc, rbuf, expected, framesIn, ctxvars, sharevars, svars>>

HandlerReturn_NoCancel ==
  /\ hpc = "verify"
  /\ cres # "none"
  /\ hpc' = "returned"
  /\ UNCHANGED <<req, byteRange, rangeErr, failure, resvars, pipevars, pvars, cvars, ctxvars, sharevars, svars>>

HandlerReturn_ReportError ==
  /\ hpc = "verify"
  /\ cres # "none"
  /\ ctxCancelled' = TRUE
  /\ hpc' = "returned"
  /\ IF cres = "err"
       THEN /\ status' = StatusAfter(status, StatusInternalServerError)
            /\ body' = Append(body, ErrTok(StatusInternalServerError))
            /\ errCalls' = Append(errCalls, StatusInternalServerError)
       ELSE UNCHANGED <<status, body, errCalls>>
  /\ UNCHANGED <<req, byteRange, rangeErr, failure, nextCalls, pipevars, pvars, cvars, reqDone, sharevars, svars>>

\* Line 115: VerifyCar has returned, its results are dropped, the handler
\* returns and the deferred cancel() runs.
HandlerReturn ==
  /\ hpc = "verify"
  /\ cres # "none"
  /\ ctxCancelled' = TRUE
  /\ hpc' = "returned"
  /\ UNCHANGED <<req, byteRange, rangeErr, failure, resvars, pipevars, pvars, cvars, reqDone, sharevars, svars>>

\* ---- several ranged requests served at once (lines 77-115 of each) ----

\* Line 77 in invocation i: io.Pipe() allocates a new pipe; r and wr are
\* locals of this invocation.
ServePipe_Shared ==
  \E i \in Reqs :
    /\ spc[i] = "idle"
    /\ heap' = IF heap = <<>> THEN <<[buf |-> <<>>, writers |-> {}, readers |-> {}]>> ELSE heap
    /\ sr' = [sr EXCEPT ![i] = 1]
    /\ sw' = [sw EXCEPT ![i] = 1]
    /\ spc' = [spc EXCEPT ![i] = "piped"]
    /\ UNCHANGED <<prods, got, reqvars>>

ServePipe ==
  \E i \in Reqs :
    /\ spc[i] = "idle"
    /\ heap' = Append(heap, [buf |-> <<>>, writers |-> {}, readers |-> {}])
    /\ sr' = [sr EXCEPT ![i] = Len(heap) + 1]
    /\ sw' = [sw EXCEPT ![i] = Len(heap) + 1]
    /\ spc' = [spc EXCEPT ![i] = "piped"]
    /\ UNCHANGED <<prods, got, reqvars>>

\* Lines 83-94 in invocation i: one go statement; the closure captures
\* this invocation's wr.
ServeSpawn ==
  \E i \in Reqs :
    /\ spc[i] = "piped"
    /\ prods' = Append(prods, [owner |-> i, wr |-> sw[i], sent |-> 0])
    /\ spc' = [spc EXCEPT ![i] = "draining"]
    /\ UNCHANGED <<heap, sr, sw, got, reqvars>>

\* A producer goroutine writes its next byte to the pipe it captured (the
\* previous write has been read).
ServeWrite ==
  \E k \in 1 .. Len(prods) :
    LET g == prods[k] IN
      /\ g.sent < MsgLen
      /\ heap[g.wr].buf = <<>>
      /\ heap' = [heap EXCEPT ![g.wr].buf = << <<g.owner, g.sent + 1>> >>,
                               ![g.wr].writers = @ \cup {k}]
      /\ prods' = [prods EXCEPT ![k].sent = g.sent + 1]
      /\ UNCHANGED <<spc, sr, sw, got, reqvars>>

\* Line 114 in invocation i: VerifyCar reads from this invocation's r.
ServeRead ==
  \E i \in Reqs :
    /\ spc[i] = "draining"
    /\ heap[sr[i]].buf # <<>>
    /\ got' = [got EXCEPT ![i] = @ \o heap[sr[i]].buf]
    /\ heap' = [heap EXCEPT ![sr[i]].buf = <<>>, ![sr[i]].readers = @ \cup {i}]
    /\ UNCHANGED <<spc, sr, sw, prods, reqvars>>

\* Line 115 in invocation i: VerifyCar returns, the handler returns.
ServeReturn ==
  \E i \in Reqs :
    /\ spc[i] = "draining"
    /\ spc' = [spc EXCEPT ![i] = "returned"]
    /\ UNCHANGED <<heap, sr, sw, prods, got, reqvars>>

\* Every invocation serves a ranged request (byteRange # nil at line 30).
ServerInit ==
  /\ Init
  /\ req.entityBytes \in ValidRanges
  /\ req.entityBytes[1] = 0 /\ req.entityBytes[2] = 0
  /\ req.query = <<>>

ServerNext ==
  \/ ServePipe
  \/ ServeSpawn
  \/ ServeWrite
  \/ ServeRead
  \/ ServeReturn

ServerSpec == ServerInit /\ [][ServerNext]_vars

Next ==
  \/ ParseByteRange
  \/ PassThrough
  \/ ParseUrlPath
  \/ CheckFormat
  \/ ParseScope
  \/ NewWritable
  \/ StartProducer
  \/ ProducerCallNext
  \/ ProducerWriteHeader
  \/ ProducerWrite
  \/ ProducerWriteReturn
  \/ ProducerReturn
  \/ ClientCancel
  \/ ConsumerBeginRead
  \/ ConsumerRead
  \/ ConsumerDecode
  \/ TraversalDone
  \/ ConsumerCtxAbort
  \/ HandlerReturn

Spec == Init /\ [][Next]_vars

\* The Go scheduler runs every goroutine that can take a step; only the
\* client's disconnect is not bound to happen.
Fairness ==
  /\ WF_vars(ParseByteRange) /\ WF_vars(PassThrough) /\ WF_vars(ParseUrlPath)
  /\ WF_vars(CheckFormat) /\ WF_vars(ParseScope) /\ WF_vars(NewWritable)
  /\ WF_vars(StartProducer) /\ WF_vars(ProducerCallNext) /\ WF_vars(ProducerWriteHeader)
  /\ WF_vars(ProducerWrite) /\ WF_vars(ProducerWriteReturn) /\ WF_vars(ProducerReturn)
  /\ WF_vars(ConsumerBeginRead) /\ WF_vars(ConsumerRead) /\ WF_vars(ConsumerDecode)
  /\ WF_vars(TraversalDone) /\ WF_vars(ConsumerCtxAbort) /\ WF_vars(HandlerReturn)

FairSpec == Spec /\ Fairness

TypeOK ==
  /\ req \in Requests
  /\ spc \in [Reqs -> {"idle", "piped", "draining", "returned"}]
  /\ sr \in [Reqs -> 0 .. NumReqs]
  /\ sw \in [Reqs -> 0 .. NumReqs]
  /\ Len(heap) <= NumReqs
  /\ Len(prods) <= NumReqs
  /\ \A k \in 1 .. Len(prods) : prods[k].sent \in 0 .. MsgLen
  /\ hpc \in {"start", "checkNil", "checkFormat", "parseScope", "newWritable", "pipe", "verify", "returned"}
  /\ ppc \in {"none", "spawned", "running", "writing", "done"}
  /\ cpc \in {"none", "need", "reading"}
  /\ cres \in {"none", "ok", "err"}
  /\ ppos \in 0 .. Len(stream)
  /\ written = readLog \o pipeBuf

\* ------------------------------------------------------------------ claims

\* C1: a request whose byte-range parameter fails to parse is answered with
\* 400 and next is never invoked for it, neither synchronously nor by a
\* producer goroutine.
C1_MalformedRangeNeverInvokesNext ==
  rangeErr => (status = StatusBadRequest /\ nextCalls = <<>> /\ ppc = "none")

\* C2: a request without byte-range parameter is handed to next exactly
\* once, synchronously, with the original writer and request; no pipe, no
\* producer, nothing written by the handler itself: the client sees what
\* next alone produces.
C2_PassThrough ==
  req.entityBytes = Absent =>
    /\ ~pipeCreated /\ ppc = "none" /\ errCalls = <<>>
    /\ hpc # "returned" => (nextCalls = <<>> /\ body = <<>> /\ status = 0)
    /\ hpc = "returned" =>
         /\ nextCalls = << [w |-> "res", req |-> req, sync |-> TRUE] >>
         /\ body = ValidStream
         /\ status = 200

C2_Witness == req.entityBytes = Absent /\ hpc = "returned" /\ Len(nextCalls) = 1

\* C3: when a descriptor step fails on the ranged path the handler has
\* returned with no pipe, no producer and no call of next; a producer exists
\* only after every descriptor step has succeeded.
C3_DescriptorFailureShortCircuits ==
  /\ failure # "none" =>
       (hpc = "returned" /\ ~pipeCreated /\ ppc = "none" /\ nextCalls = <<>>)
  /\ (ppc # "none" \/ pipeCreated) =>
       (failure = "none" /\ byteRange # Nil /\ hpc \in {"verify", "returned"})

C3_Witness == failure = "writable" /\ hpc = "returned" /\ byteRange # Nil

ObjSlice(br) == [k \in 1 .. (br[2] - br[1] + 1) |-> ObjByte(br[1] + k - 1)]
FileBytes(b) ==
  LET bs == SelectSeq(b, LAMBDA t : t[1] = "B" /\ t[2] \in 1 .. Size)
  IN [k \in 1 .. Len(bs) |-> bs[k][2]]

\* The leaves holding at least one byte of the range, and the block stream
\* made of the header, the root and exactly those leaves, each whole.
RangeLeaves(br) == {i \in 1 .. NumLeaves : \E k \in br[1] .. br[2] : k \div ChunkSize = i - 1}
RECURSIVE RangeFrames(_, _)
RangeFrames(i, br) ==
  IF i > NumLeaves THEN <<>>
  ELSE (IF i \in RangeLeaves(br) THEN Frame(Cid(i), LeafData(i)) ELSE <<>>) \o RangeFrames(i + 1, br)
RangeOutput(br) == <<HeaderTok>> \o Frame(Cid(RootId), RootData) \o RangeFrames(1, br)

C7_PipeFIFO == IsPrefix(readLog, written)

C7_Witness == Len(readLog) >= 3 /\ Len(readLog) < Len(written) /\ Len(pipeBuf) = 1

\* C8: once a handler that created the pipe has returned, both the read end
\* and the write end of the pipe are closed.
C8_PipeClosedOnReturn ==
  (pipeCreated /\ hpc = "returned") => (rdClosed /\ wrClosed)

\* C9: when the producer has exited while the consumer waits in a read for
\* data that will not come, the write end has been closed from the producer
\* side, so that the read returns end-of-stream and the handler can return.
C9_ProducerExitClosesWriteEnd ==
  (ppc = "done" /\ hpc = "verify" /\ cpc = "reading" /\ pipeBuf = <<>>) => wrClosed

\* C10: when the handler has returned while the producer is blocked in a
\* write nobody will read, the read end is closed, so that this write and
\* every later one return an error and the producer can terminate.
C10_ReturnUnblocksProducer ==
  (hpc = "returned" /\ ppc = "writing" /\ pipeBuf # <<>>) => rdClosed

\* C11 .. C20

\* C12: the request the producer passes to next is a clone without the
\* entity-bytes parameter, with every other query parameter, the path and
\* the headers of the original; the original request still carries the range.
C12_ClonedRequestStripped ==
  /\ byteRange # Nil => req.entityBytes = byteRange
  /\ \A i \in 1 .. Len(nextCalls) :
       ~nextCalls[i].sync =>
         /\ nextCalls[i].w = "wrapped"
         /\ nextCalls[i].req.entityBytes = Absent
         /\ Len(nextCalls[i].req.query) = Len(req.query)
         /\ {nextCalls[i].req.query[k] : k \in 1 .. Len(req.query)} = {req.query[k] : k \in 1 .. Len(req.query)}
         /\ nextCalls[i].req.path = req.path
         /\ nextCalls[i].req.header = req.header

C12_Witness ==
  /\ Len(nextCalls) = 1
  /\ ~nextCalls[1].sync
  /\ req.entityBytes \in ValidRanges
  /\ req.query # <<>>
  /\ nextCalls[1].req.query # req.query

\* The frames of the valid blocks with the given identifiers, in order.
RECURSIVE FramesOf(_)
FramesOf(cids) ==
  IF cids = <<>> THEN <<>>
  ELSE LET id == CHOOSE id \in BlockIds : Cid(id) = Head(cids)
       IN Frame(Head(cids), BlockData(id)) \o FramesOf(Tail(cids))

C17_OnlyPipeShared == ~({"producer", "consumer"} \subseteq resUsers)

\* C14: the pipe buffers nothing: the bytes written and not yet read are the
\* unread rest of the one write in flight, a write has returned only when
\* all of its bytes have been read, and a producer whose consumer has
\* stopped reading stays blocked in that write instead of piling up data.
C14_PipeBackPressure ==
  /\ written = readLog \o pipeBuf
  /\ Len(pipeBuf) <= MaxWrite
  /\ ppc # "writing" => pipeBuf = <<>>
  /\ ppos = Len(written)

C14_Witness ==
  /\ hpc = "returned"
  /\ ppc = "writing"
  /\ Len(pipeBuf) >= 2
  /\ Len(readLog) >= 3

\* C16: once a handler that started the producer has returned, the
\* cancellable context of the producer's request has been cancelled; the
\* handler does not cancel it while VerifyCar is still running.
C16_CancelOnReturn ==
  /\ (pipeCreated /\ hpc = "returned") => ctxCancelled
  /\ hpc # "returned" => ~ctxCancelled

C16_Witness ==
  /\ pipeCreated
  /\ hpc = "returned"
  /\ cres = "err"
  /\ ctxCancelled
  /\ ppc = "running"

\* C19: once the extraction has failed, the client receives no further byte
\* and no new status, the extraction is not resumed or restarted, the
\* handler does not call next (the only call is the goroutine's), and the
\* handler's only remaining step is to return.
C19_AbortIsFinal ==
  [][cres = "err" =>
       /\ body' = body /\ status' = status /\ errCalls' = errCalls
       /\ cres' = "err" /\ expected' = expected /\ framesIn' = framesIn /\ rbuf' = rbuf
       /\ Len(nextCalls') <= 1 /\ (\A i \in 1 .. Len(nextCalls') : ~nextCalls'[i].sync)
       /\ hpc' \in {"verify", "returned"}]_vars

C19_Witness ==
  /\ cres = "err"
  /\ hpc = "returned"
  /\ ~reqDone
  /\ Len(body) > 1
  /\ expected # <<>>

\* C20: at most one response per request: once the handler has written an
\* error status, that error is all the client gets: no call of next on that
\* writer, no further body bytes, no second status.
C20_ErrorIsOnlyResponse ==
  errCalls # <<>> =>
    /\ Len(errCalls) = 1
    /\ nextCalls = <<>>
    /\ status = errCalls[1]
    /\ body = <<ErrTok(errCalls[1])>>

\* C11: when the request's context is cancelled while the ranged path is
\* running, then in every interleaving the consumer's read returns, the
\* handler returns and the producer goroutine ends.
C11_CancelTearsDown ==
  (reqDone /\ hpc = "verify") ~> (hpc = "returned" /\ ppc = "done")

\* The per-request state of the spec's state machine.
Phase ==
  IF hpc \in {"start", "checkNil", "checkFormat", "parseScope", "newWritable"} THEN "Idle"
  ELSE IF hpc = "pipe" THEN "DescriptorBuilt"
  ELSE IF hpc = "verify" THEN "Streaming"
  ELSE IF cres = "ok" THEN "Completed"
  ELSE "Aborted"

PhaseOrder ==
  /\ Phase' = "Idle" => Phase = "Idle"
  /\ Phase' = "DescriptorBuilt" => Phase \in {"Idle", "DescriptorBuilt"}
  /\ Phase' = "Streaming" => Phase \in {"DescriptorBuilt", "Streaming"}
  /\ Phase \in {"Completed", "Aborted"} => Phase' = Phase

\* C15: a ranged request only moves forward through Idle, DescriptorBuilt,
\* ProducerRunning&ConsumerDraining and Completed or Aborted: streaming is
\* entered only from DescriptorBuilt, a terminal state is never left, no
\* state returns to Idle, and on entering a terminal state the pipe (if
\* one was created) has been released, i.e. both its ends are closed.
C15_StateMachine ==
  [][req.entityBytes \in ValidRanges =>
       /\ PhaseOrder
       /\ (Phase' \in {"Completed", "Aborted"} /\ pipeCreated') => (rdClosed' /\ wrClosed')]_vars

\* C18: with several ranged requests in flight, every request has its own
\* pipe (both of its ends), a pipe has at most one writer, a producer of its
\* own request, and one reader, the consumer of that request; a request
\* starts at most one producer; a consumer only reads, in order, the bytes
\* its own request's producer wrote.
C18_PipePerRequest ==
  /\ \A i \in Reqs :
       /\ sr[i] = sw[i]
       /\ \A j \in Reqs : (i # j /\ sr[i] # 0) => sr[i] # sr[j]
       /\ Cardinality({k \in 1 .. Len(prods) : prods[k].owner = i}) <= 1
       /\ spc[i] \in {"idle", "piped"} => \A k \in 1 .. Len(prods) : prods[k].owner # i
       /\ Len(got[i]) <= MsgLen
       /\ \A n \in 1 .. Len(got[i]) : got[i][n] = <<i, n>>
  /\ \A p \in 1 .. Len(heap) :
       /\ Cardinality(heap[p].writers) <= 1
       /\ Cardinality(heap[p].readers) <= 1
       /\ \A k \in heap[p].writers : prods[k].wr = p /\ sw[prods[k].owner] = p
       /\ \A i \in heap[p].readers : sr[i] = p

C18_Witness ==
  /\ spc[1] = "draining" /\ spc[2] = "draining"
  /\ got[1] # <<>> /\ got[2] # <<>>
  /\ heap[sr[1]].buf # <<>> /\ heap[sr[2]].buf # <<>>

\* C21: when next is writing the complete valid block stream and the
\* request is never cancelled, then, unless next itself returns before the
\* end of the stream, the handler eventually returns and the producer
\* goroutine has ended: neither task stays blocked on the pipe.
C21_SuccessTerminates ==
  (hpc = "verify" /\ ppc = "running" /\ stream = ValidStream)
    ~> \/ reqDone
       \/ (ppc = "done" /\ ppos < Len(stream))
       \/ (hpc = "returned" /\ ppc = "done")

====
